---------------------------- MODULE Spec2Model ----------------------------
(***************************************************************************)
(* A model of the Streamlit course generator: the completion-to-document   *)
(* pipeline of services/generate.py (JSON extraction, video enrichment),   *)
(* the video lookup of services/search.py, and the session handlers of     *)
(* services/display.py and app.py.                                         *)
(*                                                                         *)
(* One action is one Streamlit script run: main() executed top to bottom   *)
(* for one user interaction.  st.rerun() ends the run that calls it and    *)
(* queues a further run with no interaction; rerun_pending marks it.       *)
(*                                                                         *)
(* Python values are records.  A dict is the record of its keys, so        *)
(* `"k" in d` is "k" \in DOMAIN d.  None, str and number values are the    *)
(* records PyNone, PyStr(s), PyNum, told from dicts by their "py" field.   *)
(***************************************************************************)
EXTENDS Integers, Sequences, FiniteSets, TLC

VARIABLES
    GOOGLE_API_KEY,   \* services/get_env.py: TRUE iff the env value is non-empty
    course_data,      \* st.session_state.course_data
    quiz_data,        \* st.session_state.quiz_data
    user_answers,     \* st.session_state.user_answers (<<>> while the key is absent)
    quiz_submitted,   \* st.session_state.quiz_submitted (FALSE while the key is absent)
    session_keys,     \* which of "user_answers", "quiz_submitted" exist in st.session_state
    current_view,     \* st.session_state.current_view
    selected_tab,     \* value of the "Navigation" radio
    rerun_pending,    \* st.rerun() was called: the next run is the queued one
    quiz_stale,       \* history: the course that the held quiz was generated from has
                      \* since been replaced in course_data
    touched,          \* history: the user has picked an option in a radio of the
                      \* held quiz
    last,             \* history: the last script run, how its generator calls ended,
                      \* what its question loop recorded and its results showed, and
                      \* the answers that a Retry Quiz click found
    fin,              \* the input drawn by Init in the single-run specifications
    fout              \* there: the inputs of the run, what its generator calls returned,
                      \* and posted, what display_quiz_results and the course view
                      \* showed, and the PDF built

vars == <<GOOGLE_API_KEY, course_data, quiz_data, user_answers, quiz_submitted,
          session_keys, current_view, selected_tab, rerun_pending, quiz_stale,
          touched, last, fin, fout>>

-----------------------------------------------------------------------------
(* Python values *)

PyNone == [py |-> "None"]

PyNum == [py |-> "num"]

PyStr(s) == [py |-> "str", s |-> s]

IsDict(v) == "py" \notin DOMAIN v

\* d.get(k, default) on a dict d
Get(d, k, default) == IF k \in DOMAIN d THEN d[k] ELSE default

\* d[k] = v on a dict d
SetKey(d, k, v) == [x \in DOMAIN d \cup {k} |-> IF x = k THEN v ELSE d[x]]

\* no exception raised
NoExc == "none"

-----------------------------------------------------------------------------
(* Completion text.  A text is a sequence of characters over a small       *)
(* alphabet that keeps JSON's brace and string structure:                  *)
(*   "{" "}"  the braces                                                   *)
(*   "q"      the double quote                                             *)
(*   "k"      a member's key and colon, as in  "key":                      *)
(*   "1"      a number literal                                             *)
(*   "p"      a letter of prose                                            *)
(* json.loads accepts   value ::= 1 | q (non-q)* q | { } | { k value }     *)
(* and nothing after the value.                                            *)

Chars == {"{", "}", "q", "k", "1", "p"}

MaxLen == 5

Texts == UNION {[1..n -> Chars] : n \in 0..MaxLen}

\* str.find(c): 0-based index of the first c, -1 when there is none
Find(text, c) ==
    IF \E i \in 1..Len(text) : text[i] = c
    THEN (CHOOSE i \in 1..Len(text) :
              text[i] = c /\ \A j \in 1..(i - 1) : text[j] # c) - 1
    ELSE -1

\* str.rfind(c): 0-based index of the last c, -1 when there is none
RFind(text, c) ==
    IF \E i \in 1..Len(text) : text[i] = c
    THEN (CHOOSE i \in 1..Len(text) :
              text[i] = c /\ \A j \in (i + 1)..Len(text) : text[j] # c) - 1
    ELSE -1

\* text[a:b] for 0 <= a <= b <= len(text)
Slice(text, a, b) == SubSeq(text, a + 1, b)

\* The decoder's scan of one value from 1-based position i:
\* [ok, next (the position after the value), value].
RECURSIVE ScanValue(_, _)
ScanValue(text, i) ==
    LET fail == [ok |-> FALSE, next |-> i, value |-> PyNone] IN
    IF i > Len(text) THEN fail
    ELSE IF text[i] = "1" THEN [ok |-> TRUE, next |-> i + 1, value |-> PyNum]
    ELSE IF text[i] = "q" THEN
        IF \E j \in (i + 1)..Len(text) : text[j] = "q"
        THEN LET j == CHOOSE j \in (i + 1)..Len(text) :
                          text[j] = "q" /\ \A m \in (i + 1)..(j - 1) : text[m] # "q"
             IN [ok |-> TRUE, next |-> j + 1, value |-> PyStr(SubSeq(text, i + 1, j - 1))]
        ELSE fail
    ELSE IF text[i] = "{" THEN
        IF i + 1 > Len(text) THEN fail
        ELSE IF text[i + 1] = "}"
        THEN [ok |-> TRUE, next |-> i + 2, value |-> [py |-> "dict", members |-> <<>>]]
        ELSE IF text[i + 1] = "k" THEN
            LET m == ScanValue(text, i + 2) IN
            IF m.ok /\ m.next <= Len(text) /\ text[m.next] = "}"
            THEN [ok |-> TRUE, next |-> m.next + 1,
                  value |-> [py |-> "dict", members |-> <<m.value>>]]
            ELSE fail
        ELSE fail
    ELSE fail

\* json.loads(text): [ok |-> TRUE, value] or [ok |-> FALSE] for JSONDecodeError
JsonLoads(text) ==
    LET r == ScanValue(text, 1) IN
    IF r.ok /\ r.next = Len(text) + 1
    THEN [ok |-> TRUE, value |-> r.value]
    ELSE [ok |-> FALSE, value |-> PyNone]


-----------------------------------------------------------------------------
(* JSON extraction, the inner try blocks of generate.py *)

\* A variant that is no part of the program: the extraction with the second
\* stage, which parses the whole text when the brace span does not parse.
ExtractWithFallback(course_content) ==
    LET json_start == Find(course_content, "{")
        json_end == RFind(course_content, "}") + 1
        span == JsonLoads(Slice(course_content, json_start, json_end))
    IN IF json_start >= 0 /\ json_end > json_start /\ span.ok
       THEN span
       ELSE JsonLoads(course_content)

\* A variant that is no part of the program: the span ends at the first "}".
ExtractToFirstClose(quiz_content) ==
    LET json_start == Find(quiz_content, "{")
        json_end == Find(quiz_content, "}") + 1
    IN IF json_start >= 0 /\ json_end > json_start
       THEN JsonLoads(Slice(quiz_content, json_start, json_end))
       ELSE JsonLoads(quiz_content)

\* generate_course_with_groq, lines 118-125: what json.loads gives for the
\* completion text course_content
ExtractCourseJson(course_content) ==
    LET json_start == Find(course_content, "{")
        json_end == RFind(course_content, "}") + 1
    IN IF json_start >= 0 /\ json_end > json_start
       THEN JsonLoads(Slice(course_content, json_start, json_end))
       ELSE JsonLoads(course_content)

\* generate_quiz_with_groq, lines 258-265
ExtractQuizJson(quiz_content) ==
    LET json_start == Find(quiz_content, "{")
        json_end == RFind(quiz_content, "}") + 1
    IN IF json_start >= 0 /\ json_end > json_start
       THEN JsonLoads(Slice(quiz_content, json_start, json_end))
       ELSE JsonLoads(quiz_content)

\* The Python value a decoded JSON value stands for.  The text model keeps an
\* object's braces and not its members: a decoded object is the dict d that the
\* completion encodes; strings and numbers are themselves.
Denote(value, d) == IF value.py = "dict" THEN d ELSE value

-----------------------------------------------------------------------------
(* Video lookup, services/search.py *)

DefaultMaxResults == 3

\* The YouTube API's answer to the n-th request of a run: "raise" (the request
\* or the reading of its items raises), "empty" (no items) or "hit" (one item,
\* named after the request so that every request's answer is its own).
ApiItems(outcome, n) ==
    IF outcome = "hit"
    THEN <<[videoId |-> n, title |-> "t", thumbnail |-> "i", channelTitle |-> "ch"]>>
    ELSE <<>>

\* lines 51-65: the record built for each item
VideoOf(item) ==
    [video_id |-> item.videoId,
     title |-> item.title,
     thumbnail |-> item.thumbnail,
     channel |-> item.channelTitle,
     url |-> <<"https://www.youtube.com/watch?v=", item.videoId>>]

\* A variant that is no part of the program: the lookup without the
\* try/except of lines 35 and 68-70, so that a failing request raises.
SearchYoutubeVideosUncaught(query, max_results, key, outcome, n) ==
    IF ~key
    THEN [exc |-> NoExc, videos |-> <<>>, requests |-> <<>>]
    ELSE IF outcome = "raise"
    THEN [exc |-> "HttpError", videos |-> <<>>,
          requests |-> <<[q |-> query, maxResults |-> max_results]>>]
    ELSE [exc |-> NoExc,
          videos |-> [i \in 1..Len(ApiItems(outcome, n)) |->
                         VideoOf(ApiItems(outcome, n)[i])],
          requests |-> <<[q |-> query, maxResults |-> max_results]>>]

\* search_youtube_videos(query, max_results): [exc, videos, requests], where
\* requests are the search().list() calls it made, as <<[q, maxResults]>>.
SearchYoutubeVideos(query, max_results, key, outcome, n) ==
    IF ~key
    THEN [exc |-> NoExc, videos |-> <<>>, requests |-> <<>>]
    ELSE LET items == ApiItems(outcome, n)
             req == <<[q |-> query, maxResults |-> max_results]>>
         IN IF outcome = "raise"
            THEN [exc |-> NoExc, videos |-> <<>>, requests |-> req]
            ELSE [exc |-> NoExc,
                  videos |-> [i \in 1..Len(items) |-> VideoOf(items[i])],
                  requests |-> req]

-----------------------------------------------------------------------------
(* Enrichment, generate.py lines 127-158.  st = [exc, n, log]: the exception *)
(* raised so far, the number of lookups made, the requests issued.          *)

\* a call search_youtube_videos(query) from the enrichment loops: the
\* (st.n + 1)-th request of the run
Lookup(query, st, key, oracle) ==
    LET r == SearchYoutubeVideos(query, DefaultMaxResults, key,
                                 oracle[st.n + 1], st.n + 1)
    IN [videos |-> r.videos,
        st |-> [exc |-> r.exc, n |-> st.n + 1, log |-> st.log \o r.requests]]

\* lines 146-150: the query of a subtopic, [exc, q]; the f-string raises
\* KeyError when a title it reads is missing
SubtopicQuery(topic, subtopic) ==
    IF "video_search_query" \in DOMAIN subtopic
    THEN [exc |-> NoExc, q |-> subtopic.video_search_query]
    ELSE IF "title" \notin DOMAIN topic \/ "title" \notin DOMAIN subtopic
    THEN [exc |-> "'title'", q |-> ""]
    ELSE [exc |-> NoExc, q |-> topic.title \o " " \o subtopic.title \o " tutorial"]

\* A variant that is no part of the program: the topic's query is always
\* synthesized from the titles.
TopicQuerySynthesized(course, topic) ==
    IF "course_title" \notin DOMAIN course
    THEN [exc |-> "'course_title'", q |-> ""]
    ELSE IF "title" \notin DOMAIN topic
    THEN [exc |-> "'title'", q |-> ""]
    ELSE [exc |-> NoExc, q |-> course.course_title \o " " \o topic.title \o " tutorial"]

\* lines 138-142: the query of a topic, [exc, q]
TopicQuery(course, topic) ==
    IF "video_search_query" \in DOMAIN topic
    THEN [exc |-> NoExc, q |-> topic.video_search_query]
    ELSE IF "course_title" \notin DOMAIN course
    THEN [exc |-> "'course_title'", q |-> ""]
    ELSE IF "title" \notin DOMAIN topic
    THEN [exc |-> "'title'", q |-> ""]
    ELSE [exc |-> NoExc, q |-> course.course_title \o " " \o topic.title \o " tutorial"]

\* subtopic["videos"] = ..., topic["videos"] = ...: the assignment happens
\* when the lookup r returned
AssignVideos(node, r) ==
    IF r.st.exc # NoExc THEN node ELSE SetKey(node, "videos", r.videos)

\* A variant that is no part of the program: the subtopics of a topic are
\* walked from the last to the first.
RECURSIVE EnrichSubtopicsBackwards(_, _, _, _, _, _)
EnrichSubtopicsBackwards(topic, subs, j, st, key, oracle) ==
    IF j > Len(subs) \/ st.exc # NoExc THEN [st |-> st, subs |-> subs]
    ELSE LET k == Len(subs) + 1 - j
             query == SubtopicQuery(topic, subs[k])
             r == Lookup(query.q, st, key, oracle)
         IN IF query.exc # NoExc
            THEN [st |-> [st EXCEPT !.exc = query.exc], subs |-> subs]
            ELSE EnrichSubtopicsBackwards(topic,
                     [subs EXCEPT ![k] = AssignVideos(subs[k], r)],
                     j + 1, r.st, key, oracle)

\* lines 145-150: the subtopic loop of one topic, from subtopic j on
RECURSIVE EnrichSubtopics(_, _, _, _, _, _)
EnrichSubtopics(topic, subs, j, st, key, oracle) ==
    IF j > Len(subs) \/ st.exc # NoExc THEN [st |-> st, subs |-> subs]
    ELSE LET query == SubtopicQuery(topic, subs[j])
             r == Lookup(query.q, st, key, oracle)
         IN IF query.exc # NoExc
            THEN [st |-> [st EXCEPT !.exc = query.exc], subs |-> subs]
            ELSE EnrichSubtopics(topic, [subs EXCEPT ![j] = AssignVideos(subs[j], r)],
                                 j + 1, r.st, key, oracle)

\* lines 138-150 for one topic whose own lookup gave r: [st, topic]
EnrichTopic(topic, r, key, oracle) ==
    LET withVideos == AssignVideos(topic, r)
        s == EnrichSubtopics(withVideos, Get(withVideos, "subtopics", <<>>), 1,
                             r.st, key, oracle)
    IN [st |-> s.st,
        topic |-> IF "subtopics" \in DOMAIN withVideos
                  THEN [withVideos EXCEPT !.subtopics = s.subs]
                  ELSE withVideos]

\* lines 137-154: the topic loop, from topic i on
RECURSIVE EnrichTopics(_, _, _, _, _, _)
EnrichTopics(course, topics, i, st, key, oracle) ==
    IF i > Len(topics) \/ st.exc # NoExc THEN [st |-> st, topics |-> topics]
    ELSE LET query == TopicQuery(course, topics[i])
             t == EnrichTopic(topics[i], Lookup(query.q, st, key, oracle), key, oracle)
         IN IF query.exc # NoExc
            THEN [st |-> [st EXCEPT !.exc = query.exc], topics |-> topics]
            ELSE EnrichTopics(course, [topics EXCEPT ![i] = t.topic], i + 1,
                              t.st, key, oracle)

\* the course that the loops leave, t being what the topic loop returned
Enriched(course, t) ==
    [exc |-> t.st.exc,
     course |-> IF "main_topics" \in DOMAIN course
                THEN [course EXCEPT !.main_topics = t.topics]
                ELSE course,
     log |-> t.st.log]

\* lines 128-157: [exc, course, log]
EnrichWithVideos(course, key, oracle) ==
    IF ~IsDict(course)
    THEN [exc |-> "no attribute 'get'", course |-> course, log |-> <<>>]
    ELSE Enriched(course,
                  EnrichTopics(course, Get(course, "main_topics", <<>>), 1,
                               [exc |-> NoExc, n |-> 0, log |-> <<>>], key, oracle))

-----------------------------------------------------------------------------
(* The generators, services/generate.py.  resp is the completion request's  *)
(* outcome: [exc] when requests.post or the reading of the response raises, *)
(* else [status_code, content, dict], dict being the document that the      *)
(* completion text encodes (see Denote).                                    *)

OkStatus == 200

NotCalled == [called |-> FALSE]

\* what json.loads gives when it is not reached
NotParsed == [ok |-> FALSE, value |-> PyNone]

\* lines 127-159, 167-169: the return after the enrichment e of the course
\* decoded as x; an exception of the loops is caught by the outer handler
ReturnEnriched(x, e) ==
    IF e.exc # NoExc
    THEN [called |-> TRUE, ret |-> [error |-> e.exc], parsed |-> x, lookups |-> e.log]
    ELSE [called |-> TRUE, ret |-> e.course, parsed |-> x, lookups |-> e.log]

\* A variant that is no part of the program: the loops run whenever videos
\* are asked for, without the test of GOOGLE_API_KEY of line 128.
ReturnCourseKeyUnchecked(resp, x, include_videos, key, oracle) ==
    IF ~x.ok
    THEN [called |-> TRUE,
          ret |-> [error |-> "JSON parsing failed", raw_content |-> resp.content],
          parsed |-> x, lookups |-> <<>>]
    ELSE IF include_videos
    THEN ReturnEnriched(x, EnrichWithVideos(Denote(x.value, resp.dict), key, oracle))
    ELSE [called |-> TRUE, ret |-> Denote(x.value, resp.dict),
          parsed |-> x, lookups |-> <<>>]

\* lines 116-162, x being what the extraction of lines 118-125 gave
ReturnCourse(resp, x, include_videos, key, oracle) ==
    IF ~x.ok
    THEN [called |-> TRUE,
          ret |-> [error |-> "JSON parsing failed", raw_content |-> resp.content],
          parsed |-> x, lookups |-> <<>>]
    ELSE IF include_videos /\ key
    THEN ReturnEnriched(x, EnrichWithVideos(Denote(x.value, resp.dict), key, oracle))
    ELSE [called |-> TRUE, ret |-> Denote(x.value, resp.dict),
          parsed |-> x, lookups |-> <<>>]

\* generate_course_with_groq(topic, search_content, include_videos):
\* [ret (the value returned), parsed (what json.loads gave), lookups (the
\* video requests issued)]
GenerateCourseWithGroq(resp, include_videos, key, oracle) ==
    IF resp.exc
    THEN [called |-> TRUE, ret |-> [error |-> "request failed"],
          parsed |-> NotParsed, lookups |-> <<>>]
    ELSE IF resp.status_code # OkStatus
    THEN [called |-> TRUE,
          ret |-> [error |-> "API error: " \o ToString(resp.status_code),
                  details |-> resp.content],
          parsed |-> NotParsed, lookups |-> <<>>]
    ELSE ReturnCourse(resp, ExtractCourseJson(resp.content), include_videos, key, oracle)

\* lines 256-270, x being what the extraction of lines 258-265 gave
ReturnQuiz(resp, x) ==
    IF ~x.ok
    THEN [called |-> TRUE, exc |-> NoExc,
          ret |-> [error |-> "JSON parsing failed", raw_content |-> resp.content],
          parsed |-> x]
    ELSE [called |-> TRUE, exc |-> NoExc,
          ret |-> Denote(x.value, resp.dict), parsed |-> x]

\* generate_quiz_with_groq(course_data, quiz_count): [exc, ret, parsed].  The
\* prompt is built from the course before the try block (lines 192-202), so a
\* course that is no dict raises out of the function.
GenerateQuizWithGroq(course, resp) ==
    IF ~IsDict(course)
    THEN [called |-> TRUE, exc |-> "no attribute 'get'", ret |-> PyNone,
          parsed |-> NotParsed]
    ELSE IF resp.exc
    THEN [called |-> TRUE, exc |-> NoExc, ret |-> [error |-> "request failed"],
          parsed |-> NotParsed]
    ELSE IF resp.status_code # OkStatus
    THEN [called |-> TRUE, exc |-> NoExc,
          ret |-> [error |-> "API error: " \o ToString(resp.status_code),
                  details |-> resp.content],
          parsed |-> NotParsed]
    ELSE ReturnQuiz(resp, ExtractQuizJson(resp.content))

\* the sampling values of the request bodies, generate.py lines 97-98 and
\* 237-238; the temperature is in tenths
PayloadTemperature == 7

CourseMaxTokens == 8000

QuizMaxTokens == 2500

\* generate_course_with_groq lines 91-100: the body of the request
CoursePayload ==
    [model |-> "llama3-70b-8192", temperature |-> PayloadTemperature,
     max_tokens |-> CourseMaxTokens]

\* generate_quiz_with_groq lines 231-240: the body of the request
QuizPayload ==
    [model |-> "llama3-70b-8192", temperature |-> PayloadTemperature,
     max_tokens |-> QuizMaxTokens]

\* lines 104-108 and 244-248: the bodies posted by a call that ended as g;
\* a call that raised while it built its prompt posted none
Posted(g, payload) ==
    IF g.called /\ ("exc" \notin DOMAIN g \/ g.exc = NoExc) THEN <<payload>> ELSE <<>>

\* `"error" in v`: "yes", "no", or "TypeError" when v is a number.  The strings
\* of the text model never hold the word error.
InError(v) ==
    IF IsDict(v) THEN (IF "error" \in DOMAIN v THEN "yes" ELSE "no")
    ELSE IF v.py = "str" THEN "no"
    ELSE "TypeError"

-----------------------------------------------------------------------------
(* Documents a completion can encode.  The shape follows the format          *)
(* instructions of the prompts; the model may leave any key out.  A course   *)
(* profile p = [T, S, course_title, dflt, exn, exk] has T topics of S        *)
(* subtopics each; its nodes, numbered in document order, are of kind dflt   *)
(* except node exn, which is of kind exk.                                    *)

MaxTopics == 2

MaxSubtopics == 2

MaxQuestions == 2

NodeKinds == {"full", "noquery", "notitle", "bare"}

HasTitle(kind) == kind \in {"full", "noquery"}

HasQuery(kind) == kind \in {"full", "notitle"}

TopicTitle(i) == "T" \o ToString(i)

SubtopicTitle(i, j) == "S" \o ToString(i) \o ToString(j)

QueryFor(title) == "q:" \o title

\* the number, in document order, of topic i (j = 0) or of its subtopic j
NodeNo(p, i, j) == (i - 1) * (p.S + 1) + 1 + j

NodeCount(p) == p.T * (p.S + 1)

KindAt(p, n) == IF n = p.exn THEN p.exk ELSE p.dflt

SubtopicDoc(p, i, j) ==
    LET kind == KindAt(p, NodeNo(p, i, j))
        keys == {"content"} \cup (IF HasTitle(kind) THEN {"title"} ELSE {})
                            \cup (IF HasQuery(kind) THEN {"video_search_query"} ELSE {})
    IN [k \in keys |->
           IF k = "title" THEN SubtopicTitle(i, j)
           ELSE IF k = "video_search_query" THEN QueryFor(SubtopicTitle(i, j))
           ELSE "c"]

TopicDoc(p, i) ==
    LET kind == KindAt(p, NodeNo(p, i, 0))
        keys == {"content"} \cup (IF HasTitle(kind) THEN {"title"} ELSE {})
                            \cup (IF HasQuery(kind) THEN {"video_search_query"} ELSE {})
                            \cup (IF p.S > 0 THEN {"subtopics"} ELSE {})
    IN [k \in keys |->
           IF k = "title" THEN TopicTitle(i)
           ELSE IF k = "video_search_query" THEN QueryFor(TopicTitle(i))
           ELSE IF k = "subtopics" THEN [j \in 1..p.S |-> SubtopicDoc(p, i, j)]
           ELSE "c"]

CourseDoc(p) ==
    LET keys == {"description"} \cup (IF p.course_title THEN {"course_title"} ELSE {})
                                \cup (IF p.T > 0 THEN {"main_topics"} ELSE {})
    IN [k \in keys |->
           IF k = "course_title" THEN "C"
           ELSE IF k = "main_topics" THEN [i \in 1..p.T |-> TopicDoc(p, i)]
           ELSE "d"]

Profiles ==
    {p \in [T : 0..MaxTopics, S : 0..MaxSubtopics, course_title : BOOLEAN,
            dflt : {"full", "noquery"}, exn : 0..(MaxTopics * (MaxSubtopics + 1)),
            exk : NodeKinds] :
        /\ p.exn <= NodeCount(p)
        /\ (p.exn = 0 => p.exk = "full")
        /\ (p.exn # 0 => p.exk # p.dflt)
        /\ (p.T = 0 => p.S = 0)}

\* the answers of the YouTube API to the requests of one run: none fails,
\* request f alone fails, or every request fails; a request that does not
\* fail finds one video, or none when hits is FALSE
Oracles ==
    {[n \in 1..(MaxTopics * (MaxSubtopics + 1)) |->
          IF f = n \/ f = -1 THEN "raise" ELSE IF hits THEN "hit" ELSE "empty"] :
        f \in -1..(MaxTopics * (MaxSubtopics + 1)), hits \in BOOLEAN}

\* a question as the prompt asks for it, and one without options
FullQuestion == [question |-> "?", options |-> <<"a", "b">>, correct_answer |-> 1]

BareQuestion == [question |-> "?"]

\* a quiz without the questions key, or with 1..MaxQuestions questions, of
\* which at most one (question x) has no options
QuizDocs ==
    {[quiz_title |-> "Q"]} \cup
    UNION {{[quiz_title |-> "Q",
             questions |-> [i \in 1..n |-> IF i = x THEN BareQuestion ELSE FullQuestion]] :
               x \in 0..n} : n \in 1..MaxQuestions}

\* the questions that are graded: the options are missing, empty or those of
\* FullQuestion; correct_answer is missing or an integer, in range or not
MaxGraded == 3

CorrectAnswers == -1..Len(FullQuestion.options)

GradedQuestions ==
    {BareQuestion}
    \cup {[question |-> "?", correct_answer |-> -1]}
    \cup {[question |-> "?", options |-> <<>>, correct_answer |-> 0]}
    \cup {[question |-> "?", options |-> FullQuestion.options, correct_answer |-> c] :
             c \in CorrectAnswers}

GradedQuizDocs ==
    {[quiz_title |-> "Q"]}
    \cup {[quiz_title |-> "Q", questions |-> questions] :
             questions \in UNION {[1..n -> GradedQuestions] : n \in 0..MaxGraded}}

\* documents for the renderers: keys are missing at the levels of the course,
\* the topic, the subtopic, the video entry, the quiz and the question
Without(entry, keys) == [k \in DOMAIN entry \ keys |-> entry[k]]

FullVideo == VideoOf(ApiItems("hit", 1)[1])

\* no videos, a full video entry, one with title and url only, one with a
\* title only
VideoLists ==
    {<<>>} \cup {<<Without(FullVideo, keys)>> :
                    keys \in {{}, {"video_id", "thumbnail", "channel"},
                              {"video_id", "thumbnail", "channel", "url"}}}

\* the videos key of a node: missing, or one of the lists
VideoChoices ==
    {[has |-> FALSE, list |-> <<>>]} \cup {[has |-> TRUE, list |-> l] : l \in VideoLists}

WithVideos(node, v) == IF v.has THEN SetKey(node, "videos", v.list) ELSE node

WithObjectives(course, has) ==
    IF has THEN SetKey(course, "learning_objectives", <<"o">>) ELSE course

\* the first topic gets the videos tv, its first subtopic the videos sv
WithNodeVideos(course, tv, sv) ==
    IF "main_topics" \notin DOMAIN course THEN course
    ELSE IF "subtopics" \notin DOMAIN course.main_topics[1]
    THEN [course EXCEPT !.main_topics[1] = WithVideos(@, tv)]
    ELSE [course EXCEPT !.main_topics[1] =
             WithVideos([@ EXCEPT !.subtopics[1] = WithVideos(@, sv)], tv)]

RenderedCourses ==
    {WithObjectives(
         WithNodeVideos(CourseDoc([T |-> t, S |-> s, course_title |-> ct, dflt |-> kind,
                                   exn |-> 0, exk |-> "full"]), tv, sv), obj) :
        t \in 0..1, s \in 0..1, ct \in BOOLEAN, kind \in {"full", "bare"},
        tv \in VideoChoices, sv \in VideoChoices, obj \in BOOLEAN}

RenderedQuizzes ==
    {[quiz_title |-> "Q"], [questions |-> <<BareQuestion>>],
     [questions |-> <<FullQuestion>>],
     [questions |-> <<[options |-> FullQuestion.options]>>]}

-----------------------------------------------------------------------------
(* The session.  A handler is an operator on a snapshot S of the session    *)
(* state: it returns the snapshot its script run leaves.  S.exc is the      *)
(* exception that ended the run (Streamlit shows it; what was written to    *)
(* st.session_state before it stays), S.rerun that the run called           *)
(* st.rerun(), S.gen and S.quiz what the generators returned in the run.    *)
(* The Google search of lines 91-98 returns a string for the prompt and     *)
(* catches its own exceptions; it is left out.                              *)

Tabs == {"Course Generator", "Course View", "Quiz"}

\* app.py lines 19-22: the tab that the Navigation radio shows for a view
TabOf(view) ==
    IF view = "course_generator" THEN "Course Generator"
    ELSE IF view = "course_view" THEN "Course View"
    ELSE "Quiz"

\* display_quiz_results was not called
NotShown == [out |-> [shown |-> FALSE]]

\* the question loop of display_quiz did not run to its end
NotRendered == [done |-> FALSE]

Session ==
    [course_data |-> course_data, quiz_data |-> quiz_data,
     user_answers |-> user_answers, quiz_submitted |-> quiz_submitted,
     session_keys |-> session_keys, current_view |-> current_view,
     quiz_stale |-> quiz_stale, touched |-> touched,
     rerun |-> FALSE, exc |-> NoExc, gen |-> NotCalled, quiz |-> NotCalled,
     radios |-> NotRendered, results |-> NotShown, view |-> [shown |-> FALSE], pdf |-> [called |-> FALSE]]

\* st.session_state.course_data = course: a quiz that stays held was generated
\* from the course this one replaces
StoreCourse(S, course) ==
    [S EXCEPT !.course_data = course, !.quiz_stale = (S.quiz_data # PyNone)]

\* st.session_state.quiz_data = quiz, generated from S.course_data: no question
\* of it has been shown yet
StoreQuiz(S, quiz) ==
    [S EXCEPT !.quiz_data = quiz, !.quiz_stale = FALSE, !.touched = FALSE]

\* [-1] * n
Unanswered(n) == [i \in 1..n |-> -1]

\* list.index(v): 0-based index of the first element equal to v
IndexOf(options, v) ==
    (CHOOSE i \in 1..Len(options) :
         options[i] = v /\ \A j \in 1..(i - 1) : options[j] # v) - 1

\* display_quiz lines 298-314: the question loop from question i on.  pick[i]
\* is the position of the option that the radio of question i returns.
RECURSIVE RenderQuestions(_, _, _, _)
RenderQuestions(questions, answers, pick, i) ==
    IF i > Len(questions) THEN [exc |-> NoExc, answers |-> answers]
    ELSE IF i > Len(answers) THEN [exc |-> "IndexError", answers |-> answers]
    ELSE LET options == Get(questions[i], "options", <<>>)
             index == IF answers[i] >= 0 THEN answers[i] ELSE 0
             user_choice == options[pick[i]]
         IN IF Len(options) > 0 /\ index >= Len(options)
            THEN [exc |-> "StreamlitAPIException", answers |-> answers]
            ELSE RenderQuestions(questions,
                     [answers EXCEPT ![i] = IF Len(options) > 0
                                            THEN IndexOf(options, user_choice)
                                            ELSE -1],
                     pick, i + 1)

\* display_quiz lines 290-295: the keys of the quiz are created when absent
InitQuizKeys(S, questions) ==
    [S EXCEPT !.user_answers = IF "user_answers" \in S.session_keys
                               THEN S.user_answers
                               ELSE Unanswered(Len(questions)),
              !.quiz_submitted = IF "quiz_submitted" \in S.session_keys
                                 THEN S.quiz_submitted ELSE FALSE,
              !.session_keys = S.session_keys \cup {"user_answers", "quiz_submitted"}]

\* display_quiz lines 317-318: the Submit Quiz button
SubmitButton(S, click) ==
    IF click = "Submit Quiz" THEN [S EXCEPT !.quiz_submitted = TRUE] ELSE S

\* A variant that is no part of the program: the index is tested against the
\* length only, so that a negative index counts from the end of the list.
OptionTextFromEnd(options, index, dflt) ==
    IF index >= Len(options) \/ index < -Len(options) THEN dflt
    ELSE IF index >= 0 THEN options[index + 1]
    ELSE options[Len(options) + index + 1]

\* display_quiz_results lines 342-343: the text of the option at a 0-based
\* index, dflt when the index is out of range
OptionText(options, index, dflt) ==
    IF 0 <= index /\ index < Len(options) THEN options[index + 1] ELSE dflt

\* display_quiz_results lines 332-343 for one question and the answer that
\* zip pairs with it
GradeQuestion(question, user_answer) ==
    [is_correct |-> user_answer = Get(question, "correct_answer", 0),
     your_answer |-> OptionText(Get(question, "options", <<>>), user_answer,
                                "Not answered"),
     correct_answer |-> OptionText(Get(question, "options", <<>>),
                                   Get(question, "correct_answer", 0), "Unknown")]

\* a < b ? a : b
Min(a, b) == IF a < b THEN a ELSE b

\* display_quiz_results lines 331-345: what is shown for the pairs of
\* zip(questions, user_answers)
Graded(questions, answers) ==
    [i \in 1..Min(Len(questions), Len(answers)) |->
        GradeQuestion(questions[i], answers[i])]

\* display_quiz_results lines 327 and 335-336: correct_count from pair i on
RECURSIVE CorrectCount(_, _)
CorrectCount(graded, i) ==
    IF i > Len(graded) THEN 0
    ELSE (IF graded[i].is_correct THEN 1 ELSE 0) + CorrectCount(graded, i + 1)

\* A variant that is no part of the program: the score is cut to one decimal,
\* not rounded.
ScoreTruncated(correct_count, questions) ==
    IF Len(questions) = 0 THEN 0
    ELSE (1000 * correct_count) \div Len(questions)

\* display_quiz_results lines 348-356: score_percentage as the ":.1f" of the
\* score line shows it, in tenths of a percent
ScorePercentage(correct_count, questions) ==
    IF Len(questions) = 0 THEN 0
    ELSE (2000 * correct_count + Len(questions)) \div (2 * Len(questions))

\* display_quiz_results lines 348-356 for the pairs graded
Scored(graded, correct_count, questions) ==
    [shown |-> TRUE, graded |-> graded, correct_count |-> correct_count,
     score_percentage |-> ScorePercentage(correct_count, questions)]

\* display_quiz_results lines 326-356: what the results show, with the
\* arguments of the call
QuizResults(questions, answers) ==
    [args |-> [questions |-> questions, user_answers |-> answers],
     out |-> Scored(Graded(questions, answers),
                    CorrectCount(Graded(questions, answers), 1), questions)]

\* display_quiz_results lines 358-362: the Retry Quiz button
RetryButton(S, questions, click) ==
    IF click = "Retry Quiz"
    THEN [S EXCEPT !.user_answers = Unanswered(Len(questions)),
                   !.quiz_submitted = FALSE,
                   !.rerun = TRUE]
    ELSE S

\* display_quiz lines 321-322 and display_quiz_results(quiz_data,
\* user_answers), lines 324-362: the results are shown for a submitted quiz,
\* and with them the Retry Quiz button
DisplayQuizResults(S, questions, click) ==
    IF S.quiz_submitted
    THEN RetryButton([S EXCEPT !.results = QuizResults(questions, S.user_answers)],
                     questions, click)
    ELSE S

\* the question loop of display_quiz, lines 298-314, ran to its end and left
\* these answers in user_answers
RadiosRendered(answers) == [done |-> TRUE, answers |-> answers]

\* display_quiz lines 298-322, r being what the question loop gave
AfterQuestions(S, r, questions, click) ==
    IF r.exc # NoExc THEN [S EXCEPT !.user_answers = r.answers, !.exc = r.exc]
    ELSE DisplayQuizResults(SubmitButton([S EXCEPT !.user_answers = r.answers,
                                                   !.radios = RadiosRendered(r.answers)],
                                         click),
                            questions, click)

\* display_quiz lines 298-322 for the session S that lines 290-295 leave
QuestionLoop(S, questions, click, pick) ==
    AfterQuestions(S, RenderQuestions(questions, S.user_answers, pick, 1),
                   questions, click)

\* display_quiz(quiz_data), lines 285-322, with display_quiz_results
DisplayQuiz(S, quiz, click, pick) ==
    IF ~IsDict(quiz) THEN [S EXCEPT !.exc = "no attribute 'get'"]
    ELSE QuestionLoop(InitQuizKeys(S, Get(quiz, "questions", <<>>)),
                      Get(quiz, "questions", <<>>), click, pick)

\* the keys of a video entry that display_youtube_videos subscripts, lines
\* 280-283
GridKeys == {"thumbnail", "title", "url", "channel"}

\* what a view shows in the place of a node's videos
NoRegion == "nothing"

Placeholder == "No videos available for this topic"

\* display_youtube_videos(videos), lines 271-283: the placeholder, the grid,
\* or the KeyError of an entry that lacks a key
DisplayYoutubeVideos(videos) ==
    IF videos = <<>> THEN Placeholder
    ELSE IF \E i \in 1..Len(videos) : ~(GridKeys \subseteq DOMAIN videos[i])
    THEN "KeyError"
    ELSE "grid"

\* display_course_content lines 189-191 and 206-208: the videos of a topic
\* or subtopic
VideoRegion(node) ==
    IF "videos" \in DOMAIN node /\ node.videos # <<>>
    THEN DisplayYoutubeVideos(node.videos)
    ELSE NoRegion

\* display_course_content lines 195-208 for one subtopic
RenderedSubtopic(subtopic) ==
    [title |-> Get(subtopic, "title", "Subtopic"),
     content |-> Get(subtopic, "content", ""),
     examples |-> Get(subtopic, "examples", <<>>),
     videos |-> VideoRegion(subtopic)]

\* display_course_content lines 185-208 for one topic
RenderedTopic(topic) ==
    [title |-> Get(topic, "title", "Topic"),
     content |-> Get(topic, "content", ""),
     videos |-> VideoRegion(topic),
     subtopics |-> [j \in 1..Len(Get(topic, "subtopics", <<>>)) |->
                       RenderedSubtopic(topic.subtopics[j])]]

\* display_course_content lines 137 and 173-215: what the course view shows.
\* A region "KeyError" is where the run ends; what follows it is not shown.
CourseView(course) ==
    [shown |-> TRUE,
     course_title |-> Get(course, "course_title", "Course"),
     description |-> Get(course, "description", ""),
     learning_objectives |-> Get(course, "learning_objectives", <<>>),
     introduction |-> Get(course, "introduction", ""),
     main_topics |-> [i \in 1..Len(Get(course, "main_topics", <<>>)) |->
                         RenderedTopic(course.main_topics[i])],
     summary |-> Get(course, "summary", ""),
     key_takeaways |-> Get(course, "key_takeaways", <<>>)]

\* the exception that the rendering of a view raised
ViewExc(view) ==
    IF \E i \in 1..Len(view.main_topics) :
           \/ view.main_topics[i].videos = "KeyError"
           \/ \E j \in 1..Len(view.main_topics[i].subtopics) :
                  view.main_topics[i].subtopics[j].videos = "KeyError"
    THEN "KeyError"
    ELSE NoExc

\* the session after lines 173-215 showed view
Rendered(S, view) == [S EXCEPT !.view = view, !.exc = ViewExc(view)]

\* display_course_content lines 173-215, reached when the run has neither
\* raised nor called st.rerun()
RenderCourse(S) ==
    IF S.rerun \/ S.exc # NoExc THEN S
    ELSE Rendered(S, CourseView(S.course_data))

\* generate_pdf lines 376-379: the subscripts of the first video of a
\* subtopic raise KeyError when the entry lacks the key (those of a topic's
\* videos, lines 338-357, are caught)
SubtopicLinkRaises(subtopic) ==
    /\ "videos" \in DOMAIN subtopic
    /\ subtopic.videos # <<>>
    /\ ~({"title", "url"} \subseteq DOMAIN subtopic.videos[1])

\* generate_pdf(course_data, topic), lines 279-400: [exc] and the elements
\* of the document
GeneratePdf(course) ==
    [exc |-> IF \E i \in 1..Len(Get(course, "main_topics", <<>>)) :
                   \E j \in 1..Len(Get(course.main_topics[i], "subtopics", <<>>)) :
                       SubtopicLinkRaises(course.main_topics[i].subtopics[j])
             THEN "KeyError" ELSE NoExc,
     course_title |-> Get(course, "course_title", "Course"),
     description |-> Get(course, "description", ""),
     learning_objectives |-> Get(course, "learning_objectives", <<>>),
     main_topics |-> [i \in 1..Len(Get(course, "main_topics", <<>>)) |->
                         [title |-> Get(course.main_topics[i], "title", "Topic"),
                          content |-> Get(course.main_topics[i], "content", "")]]]

\* generate_quiz_pdf lines 435-454 for one question: the options and the
\* 0-based positions marked (CORRECT)
QuestionElements(question) ==
    [question |-> Get(question, "question", ""),
     options |-> Get(question, "options", <<>>),
     correct |-> {j \in 0..(Len(Get(question, "options", <<>>)) - 1) :
                     j = Get(question, "correct_answer", 0)},
     explanation |-> Get(question, "explanation", "")]

\* generate_quiz_pdf(quiz_data, topic), lines 402-459
GenerateQuizPdf(quiz) ==
    [exc |-> NoExc,
     quiz_title |-> Get(quiz, "quiz_title", "Quiz"),
     quiz_description |-> Get(quiz, "quiz_description", ""),
     questions |-> [i \in 1..Len(Get(quiz, "questions", <<>>)) |->
                       QuestionElements(quiz.questions[i])]]

\* display_course_content lines 142-152, pdf being what generate_pdf gave
CoursePdfGenerated(S, pdf) ==
    IF pdf.exc # NoExc THEN [S EXCEPT !.pdf = pdf, !.exc = pdf.exc]
    ELSE RenderCourse([S EXCEPT !.pdf = pdf])

\* display_quiz_tab lines 227-232, q being what generate_quiz_with_groq gave
QuizNowGenerated(S, q) ==
    IF q.exc # NoExc THEN [S EXCEPT !.quiz = q, !.exc = q.exc]
    ELSE IF InError(q.ret) = "TypeError" THEN [S EXCEPT !.quiz = q, !.exc = "TypeError"]
    ELSE IF InError(q.ret) = "yes" THEN [S EXCEPT !.quiz = q]
    ELSE [StoreQuiz(S, q.ret) EXCEPT !.quiz = q, !.rerun = TRUE]

\* A variant that is no part of the program: the attempt is reset before the
\* value of the generator is tested for "error".
NewQuizResetFirst(S, q, click, pick) ==
    IF q.exc # NoExc THEN [S EXCEPT !.quiz = q, !.exc = q.exc]
    ELSE IF InError(q.ret) = "TypeError" THEN [S EXCEPT !.quiz = q, !.exc = "TypeError"]
    ELSE IF InError(q.ret) = "yes"
    THEN DisplayQuiz([S EXCEPT !.quiz = q,
                               !.user_answers = Unanswered(Len(S.user_answers)),
                               !.quiz_submitted = FALSE],
                     S.quiz_data, click, pick)
    ELSE IF ~IsDict(q.ret)
    THEN [StoreQuiz(S, q.ret) EXCEPT !.quiz = q, !.exc = "no attribute 'get'"]
    ELSE [StoreQuiz(S, q.ret) EXCEPT
            !.quiz = q,
            !.user_answers = Unanswered(Len(Get(q.ret, "questions", <<>>))),
            !.quiz_submitted = FALSE,
            !.session_keys = S.session_keys \cup {"user_answers", "quiz_submitted"},
            !.rerun = TRUE]

\* display_quiz_tab lines 257-264 and 269
NewQuizGenerated(S, q, click, pick) ==
    IF q.exc # NoExc THEN [S EXCEPT !.quiz = q, !.exc = q.exc]
    ELSE IF InError(q.ret) = "TypeError" THEN [S EXCEPT !.quiz = q, !.exc = "TypeError"]
    ELSE IF InError(q.ret) = "yes"
    THEN DisplayQuiz([S EXCEPT !.quiz = q], S.quiz_data, click, pick)
    ELSE IF ~IsDict(q.ret)
    THEN [StoreQuiz(S, q.ret) EXCEPT !.quiz = q, !.exc = "no attribute 'get'"]
    ELSE [StoreQuiz(S, q.ret) EXCEPT
            !.quiz = q,
            !.user_answers = Unanswered(Len(Get(q.ret, "questions", <<>>))),
            !.quiz_submitted = FALSE,
            !.session_keys = S.session_keys \cup {"user_answers", "quiz_submitted"},
            !.rerun = TRUE]

\* display_quiz_tab lines 239-249 and 269: the Download Quiz PDF button.  The
\* file name is built from st.session_state.course_data.get(...).
QuizPdfDownloaded(S, click, pick) ==
    IF ~IsDict(S.quiz_data) THEN [S EXCEPT !.exc = "no attribute 'get'"]
    ELSE IF S.course_data = PyNone
    THEN [S EXCEPT !.pdf = GenerateQuizPdf(S.quiz_data),
                   !.exc = "'NoneType' object has no attribute 'get'"]
    ELSE IF ~IsDict(S.course_data)
    THEN [S EXCEPT !.pdf = GenerateQuizPdf(S.quiz_data), !.exc = "no attribute 'get'"]
    ELSE DisplayQuiz([S EXCEPT !.pdf = GenerateQuizPdf(S.quiz_data)],
                     S.quiz_data, click, pick)

\* display_quiz_tab(), lines 217-269
DisplayQuizTab(S, click, in) ==
    IF S.quiz_data = PyNone
    THEN IF S.course_data # PyNone /\ click = "Generate Quiz Now"
         THEN QuizNowGenerated(S, GenerateQuizWithGroq(S.course_data, in.qresp))
         ELSE S
    ELSE IF click = "Download Quiz PDF" THEN QuizPdfDownloaded(S, click, in.pick)
    ELSE IF click = "Generate New Quiz" /\ S.course_data # PyNone
    THEN NewQuizGenerated(S, GenerateQuizWithGroq(S.course_data, in.qresp),
                          click, in.pick)
    ELSE DisplayQuiz(S, S.quiz_data, click, in.pick)

\* display_course_content lines 157-167, q being what generate_quiz_with_groq
\* gave
QuizGenerated(S, q) ==
    IF q.exc # NoExc THEN [S EXCEPT !.quiz = q, !.exc = q.exc]
    ELSE IF InError(q.ret) = "TypeError" THEN [S EXCEPT !.quiz = q, !.exc = "TypeError"]
    ELSE IF InError(q.ret) = "yes" THEN [S EXCEPT !.quiz = q]
    ELSE [StoreQuiz(S, q.ret) EXCEPT !.quiz = q, !.current_view = "quiz_view",
                                     !.rerun = TRUE]

\* display_course_content(course_data), lines 131-215
DisplayCourseContent(S, click, in) ==
    IF S.course_data = PyNone THEN S
    ELSE IF ~IsDict(S.course_data) THEN [S EXCEPT !.exc = "no attribute 'get'"]
    ELSE IF click = "Generate PDF"
    THEN CoursePdfGenerated(S, GeneratePdf(S.course_data))
    ELSE IF S.quiz_data = PyNone
    THEN IF click = "Generate Quiz"
         THEN RenderCourse(QuizGenerated(S, GenerateQuizWithGroq(S.course_data, in.qresp)))
         ELSE RenderCourse(S)
    ELSE IF click = "Go to Quiz"
    THEN [S EXCEPT !.current_view = "quiz_view", !.rerun = TRUE]
    ELSE RenderCourse(S)

\* display_course_generator lines 127-129: the switch to the course view
SwitchToCourseView(S) == [S EXCEPT !.current_view = "course_view", !.rerun = TRUE]

\* display_course_generator lines 116-129 for the session S that holds the new
\* course, q being what generate_quiz_with_groq gave
QuizWithCourse(S, q) ==
    IF q.exc # NoExc THEN [S EXCEPT !.quiz = q, !.exc = q.exc]
    ELSE IF InError(q.ret) = "TypeError" THEN [S EXCEPT !.quiz = q, !.exc = "TypeError"]
    ELSE IF InError(q.ret) = "yes" THEN SwitchToCourseView([S EXCEPT !.quiz = q])
    ELSE IF ~IsDict(q.ret)
    THEN [StoreQuiz(S, q.ret) EXCEPT !.quiz = q, !.exc = "no attribute 'get'"]
    ELSE SwitchToCourseView([StoreQuiz(S, q.ret) EXCEPT !.quiz = q])

\* A variant that is no part of the program: a generation that returns an
\* error value clears the held course.
CourseGeneratedClearing(S, g, in) ==
    IF InError(g.ret) = "TypeError" THEN [S EXCEPT !.gen = g, !.exc = "TypeError"]
    ELSE IF InError(g.ret) = "yes" THEN [S EXCEPT !.gen = g, !.course_data = PyNone]
    ELSE IF ~in.generate_quiz
    THEN SwitchToCourseView(StoreCourse([S EXCEPT !.gen = g], g.ret))
    ELSE QuizWithCourse(StoreCourse([S EXCEPT !.gen = g], g.ret),
                        GenerateQuizWithGroq(g.ret, in.qresp))

\* A variant that is no part of the program: the value is stored without the
\* test for "error" of line 104.
CourseGeneratedUnchecked(S, g, in) ==
    IF ~in.generate_quiz
    THEN SwitchToCourseView(StoreCourse([S EXCEPT !.gen = g], g.ret))
    ELSE QuizWithCourse(StoreCourse([S EXCEPT !.gen = g], g.ret),
                        GenerateQuizWithGroq(g.ret, in.qresp))

\* display_course_generator lines 104-129, g being what
\* generate_course_with_groq gave
CourseGenerated(S, g, in) ==
    IF InError(g.ret) = "TypeError" THEN [S EXCEPT !.gen = g, !.exc = "TypeError"]
    ELSE IF InError(g.ret) = "yes" THEN [S EXCEPT !.gen = g]
    ELSE IF ~in.generate_quiz
    THEN SwitchToCourseView(StoreCourse([S EXCEPT !.gen = g], g.ret))
    ELSE QuizWithCourse(StoreCourse([S EXCEPT !.gen = g], g.ret),
                        GenerateQuizWithGroq(g.ret, in.qresp))

\* display_course_generator(), lines 83-129: the Generate Course button
DisplayCourseGenerator(S, click, in) ==
    IF click # "Generate Course" THEN S
    ELSE IF ~in.topic THEN S
    ELSE IF ~in.input_groq_api_key THEN S
    ELSE IF in.include_videos /\ ~in.input_google_api_key THEN S
    ELSE CourseGenerated(S,
             GenerateCourseWithGroq(in.resp, in.include_videos,
                                    GOOGLE_API_KEY, in.oracle), in)

\* main(), app.py lines 8-35, for the tab that the Navigation radio returns
Main(S, tab, click, in) ==
    IF tab = "Course Generator"
    THEN DisplayCourseGenerator([S EXCEPT !.current_view = "course_generator"], click, in)
    ELSE IF tab = "Course View" /\ S.course_data # PyNone
    THEN DisplayCourseContent([S EXCEPT !.current_view = "course_view"], click, in)
    ELSE IF tab = "Quiz"
    THEN DisplayQuizTab([S EXCEPT !.current_view = "quiz_view"], click, in)
    ELSE S

-----------------------------------------------------------------------------
(* Inputs of the session's runs *)

\* a completion that wraps a JSON object in prose
ObjectText == <<"p", "{", "}", "p">>

\* completions that are no JSON and a JSON string
SessionTexts == {<<"p">>, <<"q", "q">>}

SessionProfile ==
    [T |-> 1, S |-> 1, course_title |-> TRUE, dflt |-> "full", exn |-> 2, exk |-> "noquery"]

\* every request finds a video
AllHit == [n \in 1..(MaxTopics * (MaxSubtopics + 1)) |-> "hit"]

\* the status codes of the answers that are not 200
ErrorStatuses == {500}

\* the outcomes of a completion request whose 200 answers encode a dict of docs
Responses(docs) ==
    {[exc |-> TRUE]}
    \cup {[exc |-> FALSE, status_code |-> s, content |-> <<"p">>] : s \in ErrorStatuses}
    \cup {[exc |-> FALSE, status_code |-> OkStatus, content |-> ObjectText, dict |-> d] :
             d \in docs}
    \cup {[exc |-> FALSE, status_code |-> OkStatus, content |-> t, dict |-> PyNone] :
             t \in SessionTexts}

\* the positions the radios of a quiz can return, one per question
Picks(quiz) ==
    IF ~IsDict(quiz) THEN {<<>>}
    ELSE LET questions == Get(quiz, "questions", <<>>)
             n(i) == Len(Get(questions[i], "options", <<>>))
         IN {f \in [1..Len(questions) -> 1..Len(FullQuestion.options)] :
                \A i \in 1..Len(questions) : f[i] <= IF n(i) = 0 THEN 1 ELSE n(i)}

\* the radios that the run of a tab shows
PicksAt(tab) == IF tab = "Quiz" THEN Picks(quiz_data) ELSE {<<>>}

\* the position that Streamlit can still keep under key q{i} when the last run
\* was a Retry Quiz click, which resets the attempt and calls st.rerun(): the
\* one the radio returned in that run, before the reset
Kept(i) ==
    IF i <= Len(last.attempt) /\ last.attempt[i] >= 0
    THEN {last.attempt[i] + 1} ELSE {}

\* the positions that the radio of question i returns in a run in which the
\* user does not touch it: a radio keeps the option that the last render
\* recorded (line 312; it is the index of line 307 and the value kept under
\* key q{i}).  Where -1 is recorded, or line 292 is about to record it, the
\* radio is built with index 0, and returns option 0 or the option that
\* Streamlit still keeps under its key.  (Where the run raises at line 307
\* the radio returns nothing.)
ShownFor(quiz, answers, i) ==
    IF "user_answers" \notin session_keys THEN {1} \cup Kept(i)
    ELSE IF i > Len(answers) THEN 1..Len(FullQuestion.options)
    ELSE IF answers[i] < 0 THEN {1} \cup Kept(i)
    ELSE IF answers[i] < Len(Get(quiz.questions[i], "options", <<>>))
    THEN {answers[i] + 1}
    ELSE 1..Len(FullQuestion.options)

\* the positions the radios return in a run in which the user touches none of
\* them
Shown(quiz, answers) ==
    {f \in Picks(quiz) : \A i \in DOMAIN f : f[i] \in ShownFor(quiz, answers, i)}

\* the questions in whose radio the user picks an option, for the positions
\* that the radios of a run return: those that no untouched radio returns
Picked(pick) ==
    {i \in DOMAIN pick : pick[i] \notin ShownFor(quiz_data, user_answers, i)}

\* the radios that the run of a tab shows when no radio is touched
ShownAt(tab) == IF tab = "Quiz" THEN Shown(quiz_data, user_answers) ELSE {<<>>}

\* display_course_generator lines 74-75: the values the sliders of the
\* Advanced Options start with, and those they offer (the temperature in
\* tenths)
DefaultTemperature == 7

DefaultMaxTokens == 4000

Temperatures == 0..10

MaxTokensChoices == {1000 + 500 * k : k \in 0..14}

NoInput ==
    [topic |-> TRUE, input_groq_api_key |-> TRUE, input_google_api_key |-> FALSE,
     include_videos |-> FALSE, generate_quiz |-> FALSE,
     temperature |-> DefaultTemperature, max_tokens |-> DefaultMaxTokens,
     resp |-> [exc |-> TRUE], qresp |-> [exc |-> TRUE],
     oracle |-> AllHit, pick |-> <<>>]

\* a completion outcome for which the generator returns a value that is no error
Usable(resp) ==
    /\ ~resp.exc
    /\ resp.status_code = OkStatus
    /\ ExtractCourseJson(resp.content).ok

\* the inputs of a Generate Course click of the session: videos are asked for
\* without a Google key in the sidebar, or not at all; an input that the run
\* does not read is left at its default
CourseInputs ==
    {in \in
        {[NoInput EXCEPT !.include_videos = iv, !.generate_quiz = gq,
                         !.resp = r, !.qresp = qr] :
            iv \in BOOLEAN, gq \in BOOLEAN,
            r \in Responses({CourseDoc(SessionProfile)}),
            qr \in Responses(QuizDocs)} :
        /\ ~(in.generate_quiz /\ Usable(in.resp)) => in.qresp = NoInput.qresp
        /\ in.include_videos => in.resp = NoInput.resp /\ ~in.generate_quiz}

-----------------------------------------------------------------------------
(* Script runs *)

\* how a generator call ended: "none" (not called), "raised", "error" (it
\* returned an error value), "TypeError" (its value cannot be tested for
\* "error") or "ok"
Ended(g) ==
    IF ~g.called THEN "none"
    ELSE IF "exc" \in DOMAIN g /\ g.exc # NoExc THEN "raised"
    ELSE IF InError(g.ret) = "yes" THEN "error"
    ELSE IF InError(g.ret) = "no" THEN "ok"
    ELSE "TypeError"

\* the state a run leaves, for the run of tab `tab` that returned snapshot r
Commit(r, tab, op, in) ==
    /\ course_data' = r.course_data
    /\ quiz_data' = r.quiz_data
    /\ user_answers' = r.user_answers
    /\ quiz_submitted' = r.quiz_submitted
    /\ session_keys' = r.session_keys
    /\ current_view' = r.current_view
    /\ quiz_stale' = r.quiz_stale
    /\ touched' = IF op = "SelectTab" /\ tab = "Quiz"
                  THEN r.touched \/ Picked(in.pick) # {} ELSE r.touched
    \* the Navigation radio is rebuilt with the view's tab when the view changed
    /\ selected_tab' = IF r.current_view # current_view THEN TabOf(r.current_view) ELSE tab
    /\ rerun_pending' = r.rerun
    /\ last' = [op |-> op, gen |-> Ended(r.gen), quiz |-> Ended(r.quiz), exc |-> r.exc,
                radios |-> r.radios, results |-> r.results.out,
                attempt |-> IF op = "RetryQuiz" THEN user_answers ELSE <<>>]
    /\ fout' = IF fin.observe
               THEN [in |-> in, gen |-> r.gen, quiz |-> r.quiz, results |-> r.results,
                     view |-> r.view, pdf |-> r.pdf,
                     payloads |-> Posted(r.gen, CoursePayload) \o Posted(r.quiz, QuizPayload)]
               ELSE fout
    /\ UNCHANGED <<GOOGLE_API_KEY, fin>>

Run(tab, click, op, in) ==
    \E r \in {Main(Session, tab, click, in)} : Commit(r, tab, op, in)

\* the user picks a tab of the Navigation radio (or, staying on the quiz tab,
\* an option of a question)
SelectTab(tab, pick) ==
    /\ ~rerun_pending
    /\ Run(tab, "none", "SelectTab", [NoInput EXCEPT !.pick = pick])

\* the run that st.rerun() queued
Rerun(pick) ==
    /\ rerun_pending
    /\ Run(selected_tab, "none", "Rerun", [NoInput EXCEPT !.pick = pick])

\* the Generate Course button, enabled when a topic and a Groq key are entered
GenerateCourse(in) ==
    /\ ~rerun_pending
    /\ selected_tab = "Course Generator"
    /\ in.topic /\ in.input_groq_api_key
    /\ Run(selected_tab, "Generate Course", "GenerateCourse", in)

\* the Generate Quiz button of the course view
GenerateQuiz(qresp) ==
    /\ ~rerun_pending
    /\ selected_tab = "Course View"
    /\ course_data # PyNone /\ IsDict(course_data) /\ quiz_data = PyNone
    /\ Run(selected_tab, "Generate Quiz", "GenerateQuiz", [NoInput EXCEPT !.qresp = qresp])

\* the Go to Quiz button of the course view
GoToQuiz ==
    /\ ~rerun_pending
    /\ selected_tab = "Course View"
    /\ course_data # PyNone /\ IsDict(course_data) /\ quiz_data # PyNone
    /\ Run(selected_tab, "Go to Quiz", "GoToQuiz", NoInput)

\* the Generate Quiz Now button of the quiz tab
GenerateQuizNow(qresp) ==
    /\ ~rerun_pending
    /\ selected_tab = "Quiz"
    /\ quiz_data = PyNone /\ course_data # PyNone
    /\ Run(selected_tab, "Generate Quiz Now", "GenerateQuizNow",
           [NoInput EXCEPT !.qresp = qresp])

\* the Generate New Quiz button of the quiz tab
GenerateNewQuiz(qresp, pick) ==
    /\ ~rerun_pending
    /\ selected_tab = "Quiz"
    /\ quiz_data # PyNone
    /\ Run(selected_tab, "Generate New Quiz", "GenerateNewQuiz",
           [NoInput EXCEPT !.qresp = qresp, !.pick = pick])

\* the Submit Quiz button
SubmitQuiz(pick) ==
    /\ ~rerun_pending
    /\ selected_tab = "Quiz"
    /\ quiz_data # PyNone /\ IsDict(quiz_data)
    /\ Run(selected_tab, "Submit Quiz", "SubmitQuiz", [NoInput EXCEPT !.pick = pick])

\* the Retry Quiz button, shown with the results
RetryQuizClick(pick) ==
    /\ ~rerun_pending
    /\ selected_tab = "Quiz"
    /\ quiz_data # PyNone /\ IsDict(quiz_data) /\ quiz_submitted
    /\ Run(selected_tab, "Retry Quiz", "RetryQuiz", [NoInput EXCEPT !.pick = pick])

\* the Generate PDF button of the course view
GeneratePdfClick ==
    /\ ~rerun_pending
    /\ selected_tab = "Course View"
    /\ course_data # PyNone /\ IsDict(course_data)
    /\ Run(selected_tab, "Generate PDF", "GeneratePdf", NoInput)

\* the Download Quiz PDF button of the quiz tab
DownloadQuizPdf(pick) ==
    /\ ~rerun_pending
    /\ selected_tab = "Quiz"
    /\ quiz_data # PyNone
    /\ Run(selected_tab, "Download Quiz PDF", "DownloadQuizPdf",
           [NoInput EXCEPT !.pick = pick])

\* the session when main() first runs
InitSession ==
    /\ course_data = PyNone
    /\ quiz_data = PyNone
    /\ user_answers = <<>>
    /\ quiz_submitted = FALSE
    /\ session_keys = {}
    /\ current_view = "course_generator"
    /\ selected_tab = "Course Generator"
    /\ rerun_pending = FALSE
    /\ quiz_stale = FALSE
    /\ touched = FALSE
    /\ last = [op |-> "init", gen |-> "none", quiz |-> "none", exc |-> NoExc,
               radios |-> NotRendered, results |-> NotShown.out, attempt |-> <<>>]
    /\ fout = NotCalled

Init ==
    /\ InitSession
    /\ GOOGLE_API_KEY = TRUE
    /\ fin = [observe |-> FALSE]

Next ==
    \/ \E tab \in Tabs : \E pick \in PicksAt(tab) : SelectTab(tab, pick)
    \/ \E pick \in ShownAt(selected_tab) : Rerun(pick)
    \/ \E in \in CourseInputs : GenerateCourse(in)
    \/ \E qresp \in Responses(QuizDocs) : GenerateQuiz(qresp)
    \/ GoToQuiz
    \/ \E qresp \in Responses(QuizDocs) : GenerateQuizNow(qresp)
    \/ \E qresp \in Responses(QuizDocs), pick \in Shown(quiz_data, user_answers) :
           /\ Usable(qresp) => pick = CHOOSE f \in Shown(quiz_data, user_answers) : TRUE
           /\ GenerateNewQuiz(qresp, pick)
    \/ \E pick \in Shown(quiz_data, user_answers) : SubmitQuiz(pick)
    \/ \E pick \in Shown(quiz_data, user_answers) : RetryQuizClick(pick)
    \/ GeneratePdfClick
    \/ \E pick \in Shown(quiz_data, user_answers) : DownloadQuizPdf(pick)

Spec == Init /\ [][Next]_vars

-----------------------------------------------------------------------------
(* One Generate Course click on a fresh session, for every completion text.  *)
(* fin.text is the text; fout keeps what the generators returned.            *)

\* the click whose course completion is fin.text
CourseFromText ==
    /\ last.op = "init"
    /\ Run(selected_tab, "Generate Course", "CourseFromText",
           [NoInput EXCEPT
              !.resp = [exc |-> FALSE, status_code |-> OkStatus, content |-> fin.text,
                        dict |-> CourseDoc(SessionProfile)]])

\* the click whose course completion is ObjectText and whose chained quiz
\* completion is fin.text
QuizFromText ==
    /\ last.op = "init"
    /\ Run(selected_tab, "Generate Course", "QuizFromText",
           [NoInput EXCEPT
              !.generate_quiz = TRUE,
              !.resp = [exc |-> FALSE, status_code |-> OkStatus, content |-> ObjectText,
                        dict |-> CourseDoc(SessionProfile)],
              !.qresp = [exc |-> FALSE, status_code |-> OkStatus, content |-> fin.text,
                         dict |-> [quiz_title |-> "Q"]]])

InitExtract ==
    /\ InitSession
    /\ GOOGLE_API_KEY = TRUE
    /\ fin \in {[observe |-> TRUE, text |-> t] : t \in Texts}

NextExtract == CourseFromText \/ QuizFromText

SpecExtract == InitExtract /\ [][NextExtract]_vars

-----------------------------------------------------------------------------
(* One Generate Course click on a fresh session, for every course document,  *)
(* every answer of the video API and every setting of the video inputs.      *)

\* the lookups run when videos are asked for, the sidebar holds a Google key
\* and get_env found GOOGLE_API_KEY
Enriches(f, key) == f.include_videos /\ f.input_google_api_key /\ key

CourseWithVideos ==
    /\ last.op = "init"
    /\ Run(selected_tab, "Generate Course", "CourseWithVideos",
           [NoInput EXCEPT
              !.include_videos = fin.include_videos,
              !.input_google_api_key = fin.input_google_api_key,
              !.oracle = fin.oracle,
              !.resp = [exc |-> FALSE, status_code |-> OkStatus, content |-> ObjectText,
                        dict |-> CourseDoc(fin.profile)]])

\* the Course View run that st.rerun() queued
CourseViewRerun ==
    /\ last.op = "CourseWithVideos"
    /\ Rerun(<<>>)

InitEnrich ==
    /\ InitSession
    /\ GOOGLE_API_KEY \in BOOLEAN
    /\ fin \in {f \in [observe : {TRUE}, profile : Profiles, oracle : Oracles,
                       include_videos : BOOLEAN, input_google_api_key : BOOLEAN] :
                   ~Enriches(f, GOOGLE_API_KEY) => f.oracle = AllHit}

NextEnrich == CourseWithVideos \/ CourseViewRerun

SpecEnrich == InitEnrich /\ [][NextEnrich]_vars

-----------------------------------------------------------------------------
(* Properties of the session *)

\* the questions of the held quiz
HeldQuestions == Get(quiz_data, "questions", <<>>)

\* the attempt is reset: no answer is recorded and the quiz is not submitted
\* (keys that display_quiz has yet to create count as reset)
AttemptReset ==
    /\ "user_answers" \in session_keys => user_answers = Unanswered(Len(HeldQuestions))
    /\ "quiz_submitted" \in session_keys => ~quiz_submitted

\* C1: every run that stores a new quiz (the generator returned a quiz and the
\* run ended without an exception) leaves user_answers at -1 for every
\* question of the new quiz and quiz_submitted False.
C1_NewQuizResetsAttempt ==
    (last.quiz = "ok" /\ last.exc = NoExc) => AttemptReset

\* C2: whenever user_answers exists and a quiz is held, user_answers has one
\* entry per question of the held quiz.
C2_AnswersMatchQuestions ==
    ("user_answers" \in session_keys /\ quiz_data # PyNone /\ IsDict(quiz_data))
        => Len(user_answers) = Len(HeldQuestions)

\* C10: the held quiz was generated from the held course.
C10_QuizFromHeldCourse ==
    quiz_data # PyNone => ~quiz_stale

-----------------------------------------------------------------------------
(* Properties of the extraction, under SpecExtract *)

ExtractionRan == last.op \in {"CourseFromText", "QuizFromText"}

\* what the generator that read fin.text returned, and the dict that an
\* object of the text encodes
Extracted == IF last.op = "CourseFromText" THEN fout.gen ELSE fout.quiz

ExtractedDict ==
    IF last.op = "CourseFromText" THEN fout.in.resp.dict ELSE fout.in.qresp.dict

\* the text has a first "{" that precedes a last "}"
Braced(text) ==
    /\ \E i \in 1..Len(text) : text[i] = "{"
    /\ \E i, j \in 1..Len(text) : i <= j /\ text[i] = "{" /\ text[j] = "}"

\* the text from its first "{" to its last "}"
BraceSpan(text) ==
    LET a == CHOOSE i \in 1..Len(text) :
                 text[i] = "{" /\ \A m \in 1..(i - 1) : text[m] # "{"
        b == CHOOSE j \in 1..Len(text) :
                 text[j] = "}" /\ \A m \in (j + 1)..Len(text) : text[m] # "}"
    IN SubSeq(text, a, b)

NoBraces(text) == \A i \in 1..Len(text) : text[i] \notin {"{", "}"}

JsonError(text) == [error |-> "JSON parsing failed", raw_content |-> text]

\* text[a..b] is a well-formed JSON object
ObjectAt(text, a, b) ==
    /\ a < b /\ text[a] = "{" /\ text[b] = "}"
    /\ JsonLoads(SubSeq(text, a, b)).ok

\* text[a..b] is the one well-formed object of the text: every well-formed
\* object of the text lies within it, the rest is prose
OneObject(text, a, b) ==
    /\ ObjectAt(text, a, b)
    /\ \A c, d \in 1..Len(text) : ObjectAt(text, c, d) => (a <= c /\ d <= b)

\* the extraction gave the value of the object text[a..b]
YieldsObject(a, b) ==
    /\ Extracted.parsed = JsonLoads(SubSeq(fin.text, a, b))
    /\ Extracted.ret = ExtractedDict

\* C3 as the specification states it: when the text from the first "{" to the
\* last "}" does not parse, the whole text is parsed, and "JSON parsing
\* failed" is returned only if the whole text does not parse either.
C3_SubstringFailureFallsBack ==
    (ExtractionRan /\ Braced(fin.text) /\ ~JsonLoads(BraceSpan(fin.text)).ok)
        => /\ Extracted.parsed = JsonLoads(fin.text)
           /\ (Extracted.ret = JsonError(fin.text)) <=> ~JsonLoads(fin.text).ok

\* C3: when the text from the first "{" to the last "}" does not parse, the
\* generator returns "JSON parsing failed" with the completion text as
\* raw_content, whether or not the whole text parses.
C3_SubstringFailureIsFinal ==
    (ExtractionRan /\ Braced(fin.text) /\ ~JsonLoads(BraceSpan(fin.text)).ok)
        => /\ ~Extracted.parsed.ok
           /\ Extracted.ret = JsonError(fin.text)

\* a text whose brace span does not parse while the whole text does
C3_Witness ==
    /\ last.op = "QuizFromText"
    /\ Braced(fin.text)
    /\ ~JsonLoads(BraceSpan(fin.text)).ok
    /\ JsonLoads(fin.text).ok
    /\ fout.quiz.ret = JsonError(fin.text)

\* C4 as the specification states it: for a text that is one well-formed
\* object with any prose around it, the extraction yields the object's value.
C4_OneObjectInProse ==
    ExtractionRan =>
        \A a, b \in 1..Len(fin.text) :
            OneObject(fin.text, a, b) => YieldsObject(a, b)

\* C4: for a text that is one well-formed object, prose without "{" before
\* it and prose without "}" after it, the extraction yields the object's
\* value.
C4_OneObjectInBraceFreeProse ==
    ExtractionRan =>
        \A a, b \in 1..Len(fin.text) :
            (/\ ObjectAt(fin.text, a, b)
             /\ \A i \in 1..(a - 1) : fin.text[i] # "{"
             /\ \A i \in (b + 1)..Len(fin.text) : fin.text[i] # "}")
                => YieldsObject(a, b)

\* an object with prose before it and prose after it
C4_Witness ==
    /\ last.op = "CourseFromText"
    /\ \E a, b \in 2..(Len(fin.text) - 1) :
           /\ ObjectAt(fin.text, a, b)
           /\ \A i \in 1..(a - 1) : fin.text[i] # "{"
           /\ \A i \in (b + 1)..Len(fin.text) : fin.text[i] # "}"
    /\ course_data = fout.in.resp.dict

\* C5: a text without "{" and "}" is parsed whole; when that fails the
\* generator returns the error with the completion text as raw_content, and
\* the Generate Course run stores no course.
C5_NoBracesWholeText ==
    (ExtractionRan /\ NoBraces(fin.text))
        => /\ Extracted.parsed = JsonLoads(fin.text)
           /\ ~JsonLoads(fin.text).ok
                 => /\ Extracted.ret = JsonError(fin.text)
                    /\ last.op = "CourseFromText"
                          => /\ course_data = PyNone
                             /\ current_view = "course_generator"
                             /\ ~rerun_pending

\* prose without braces, which is no JSON
C5_Witness ==
    /\ last.op = "CourseFromText"
    /\ Len(fin.text) > 1
    /\ NoBraces(fin.text)
    /\ ~JsonLoads(fin.text).ok
    /\ fout.gen.ret = JsonError(fin.text)
    /\ course_data = PyNone

-----------------------------------------------------------------------------
(* Properties of the enrichment, under SpecEnrich *)

\* the click ran, and its generator ran the enrichment loops
EnrichRan == last.op = "CourseWithVideos" /\ Enriches(fin, GOOGLE_API_KEY)

\* every title that a synthesized query reads is there
WellTitled(p) == p.course_title /\ HasTitle(p.exk)

\* the answer of the video API to request n, as search_youtube_videos
\* returns it: empty when the request failed or found nothing
AnswerTo(n) ==
    IF fin.oracle[n] = "hit" THEN <<VideoOf(ApiItems("hit", n)[1])>> ELSE <<>>

\* topic i (j = 0) or subtopic j of topic i of the returned course
ReturnedNode(i, j) ==
    IF j = 0 THEN fout.gen.ret.main_topics[i]
    ELSE fout.gen.ret.main_topics[i].subtopics[j]

\* the query the specification gives for topic i (j = 0) or its subtopic j
QueryOf(p, i, j) ==
    IF HasQuery(KindAt(p, NodeNo(p, i, j)))
    THEN QueryFor(IF j = 0 THEN TopicTitle(i) ELSE SubtopicTitle(i, j))
    ELSE IF j = 0 THEN "C" \o " " \o TopicTitle(i) \o " tutorial"
    ELSE TopicTitle(i) \o " " \o SubtopicTitle(i, j) \o " tutorial"

\* C6: when lookups fail, the course is returned without an error, and every
\* topic and subtopic holds the answer to its own lookup: the empty list where
\* the lookup failed, the videos found where it did not.
C6_LookupFailureIsolated ==
    (EnrichRan /\ WellTitled(fin.profile))
        => /\ "error" \notin DOMAIN fout.gen.ret
           /\ \A i \in 1..fin.profile.T : \A j \in 0..fin.profile.S :
                  /\ "videos" \in DOMAIN ReturnedNode(i, j)
                  /\ ReturnedNode(i, j).videos = AnswerTo(NodeNo(fin.profile, i, j))

\* the lookup of one subtopic fails between lookups that find a video
C6_Witness ==
    /\ EnrichRan /\ WellTitled(fin.profile)
    /\ fin.profile.T = 2 /\ fin.profile.S = 2
    /\ fin.oracle[3] = "raise"
    /\ \A n \in {1, 2, 4, 5, 6} : fin.oracle[n] = "hit"
    /\ ReturnedNode(1, 2).videos = <<>>
    /\ ReturnedNode(1, 1).videos # <<>>
    /\ ReturnedNode(2, 0).videos # <<>>

\* C7: the enrichment issues one lookup per topic and subtopic, with the
\* node's video_search_query when it has one and the synthesized title
\* string otherwise; each asks for at most 3 results and its answer becomes
\* the node's videos.
C7_LookupQueries ==
    (EnrichRan /\ WellTitled(fin.profile))
        => /\ Len(fout.gen.lookups) = NodeCount(fin.profile)
           /\ \A i \in 1..fin.profile.T : \A j \in 0..fin.profile.S :
                  LET n == NodeNo(fin.profile, i, j) IN
                  /\ fout.gen.lookups[n].q = QueryOf(fin.profile, i, j)
                  /\ fout.gen.lookups[n].maxResults <= 3
                  /\ Get(ReturnedNode(i, j), "videos", PyNone) = AnswerTo(n)

\* two topics, the first with a video_search_query and the second without
C7_Witness ==
    /\ EnrichRan /\ WellTitled(fin.profile)
    /\ fin.profile.T = 2 /\ fin.profile.S = 1
    /\ fin.profile.dflt = "full"
    /\ fin.profile.exn = 3 /\ fin.profile.exk = "noquery"
    /\ fout.gen.lookups[1].q = "q:T1"
    /\ fout.gen.lookups[3].q = "C T2 tutorial"

\* C8: the enrichment completes for every course document, a missing title
\* being read as empty: it issues the lookup of every node and the generator
\* returns the course, not an error.
C8_MissingTitlesTolerated ==
    EnrichRan
        => /\ "error" \notin DOMAIN fout.gen.ret
           /\ Len(fout.gen.lookups) = NodeCount(fin.profile)

\* the course is stored as the completion gave it, without a lookup
StoredWithoutVideos ==
    /\ fout.gen.called
    /\ fout.gen.lookups = <<>>
    /\ course_data = CourseDoc(fin.profile)
    /\ current_view = "course_view"

\* C9 as the specification states it: when videos are not asked for, or are
\* asked for with no Google key in the sidebar and none in the environment,
\* the course is stored, no lookup is issued and no node gains a videos key.
C9_NoVideosStillStores ==
    (/\ last.op = "CourseWithVideos"
     /\ \/ ~fin.include_videos
        \/ ~fin.input_google_api_key /\ ~GOOGLE_API_KEY)
        => StoredWithoutVideos

\* C9: when videos are not asked for, or are asked for with a Google key in
\* the sidebar and none in the environment, the course is stored, no lookup
\* is issued and no node gains a videos key; when they are asked for with no
\* Google key in the sidebar, nothing is generated and nothing is stored.
C9_NoVideosUnlessSidebarKeyMissing ==
    last.op = "CourseWithVideos"
        => /\ (~fin.include_videos \/ (fin.input_google_api_key /\ ~GOOGLE_API_KEY))
                 => StoredWithoutVideos
           /\ (fin.include_videos /\ ~fin.input_google_api_key)
                 => /\ ~fout.gen.called
                    /\ course_data = PyNone
                    /\ current_view = "course_generator"

\* videos asked for, a key in the sidebar, none in the environment
C9_Witness ==
    /\ last.op = "CourseWithVideos"
    /\ fin.include_videos /\ fin.input_google_api_key /\ ~GOOGLE_API_KEY
    /\ fin.profile.T = 2 /\ fin.profile.S = 2
    /\ StoredWithoutVideos

-----------------------------------------------------------------------------
(* Failed generations, under Spec *)

\* the attempt and the quiz are what they were before the step
QuizKept ==
    /\ quiz_data' = quiz_data
    /\ user_answers' = user_answers
    /\ quiz_submitted' = quiz_submitted

\* C11: a run whose course generation returns an error value (the request
\* raised, the status was not 200 or no JSON could be extracted) leaves
\* course_data, quiz_data, user_answers, quiz_submitted and current_view as
\* they were, and a run whose quiz generation returns an error value, from any
\* of the four entry points, leaves quiz_data, user_answers and quiz_submitted
\* as they were.
C11_FailedGenerationKeepsDocuments ==
    [][/\ last'.gen = "error"
            => /\ course_data' = course_data
               /\ current_view' = current_view
               /\ QuizKept
       /\ last'.quiz = "error" => QuizKept]_vars

\* a new quiz failed to generate while an answered and submitted quiz is held
C11_Witness ==
    /\ last.op = "GenerateNewQuiz"
    /\ last.quiz = "error"
    /\ quiz_submitted
    /\ \E i \in 1..Len(user_answers) : user_answers[i] > 0

-----------------------------------------------------------------------------
(* A fresh session that generates a course with a quiz, for every quiz       *)
(* document of GradedQuizDocs, answers the quiz and submits it.  fin.quiz is *)
(* the quiz; fout.results keeps what display_quiz_results showed.            *)

\* the Generate Course click whose chained quiz completion encodes fin.quiz
QuizForGrading ==
    /\ last.op = "init"
    /\ Run(selected_tab, "Generate Course", "QuizForGrading",
           [NoInput EXCEPT
              !.generate_quiz = TRUE,
              !.resp = [exc |-> FALSE, status_code |-> OkStatus, content |-> ObjectText,
                        dict |-> CourseDoc(SessionProfile)],
              !.qresp = [exc |-> FALSE, status_code |-> OkStatus, content |-> ObjectText,
                         dict |-> fin.quiz]])

\* the user opens the quiz tab or picks options there
AnswerQuiz(pick) ==
    /\ quiz_data # PyNone
    /\ SelectTab("Quiz", pick)

InitGrade ==
    /\ InitSession
    /\ GOOGLE_API_KEY = TRUE
    /\ fin \in {[observe |-> TRUE, quiz |-> q] : q \in GradedQuizDocs}

NextGrade ==
    \/ QuizForGrading
    \/ \E pick \in ShownAt(selected_tab) : Rerun(pick)
    \/ \E pick \in PicksAt("Quiz") : AnswerQuiz(pick)
    \/ \E pick \in Shown(quiz_data, user_answers) : SubmitQuiz(pick)

SpecGrade == InitGrade /\ [][NextGrade]_vars

-----------------------------------------------------------------------------
(* Properties of the results, under SpecGrade *)

\* the last run showed the results
ResultsShown == "results" \in DOMAIN fout /\ fout.results.out.shown

\* the pairs shown, and the arguments of the call that showed them
ShownPairs == fout.results.out.graded

GradedArgs == fout.results.args

\* C12: in the results, every question whose user answer is -1 is shown with
\* the selected-answer text 'Not answered' and is graded incorrect, whatever
\* its correct_answer is (missing and out of range included).
C12_UnansweredIsIncorrect ==
    ResultsShown
        => \A i \in 1..Len(ShownPairs) :
               GradedArgs.user_answers[i] = -1
                   => /\ ShownPairs[i].your_answer = "Not answered"
                      /\ ~ShownPairs[i].is_correct

\* the options and the correct_answer of graded question i
OptionsOf(i) == Get(GradedArgs.questions[i], "options", <<>>)

CorrectAnswerOf(i) == Get(GradedArgs.questions[i], "correct_answer", 0)

\* C13: in the results, the correct-answer text of a question is the option
\* at correct_answer when 0 <= correct_answer < len(options) and 'Unknown'
\* otherwise, the selected-answer text is the option at the user's index when
\* that index is in range and 'Not answered' otherwise, and the run that
\* shows them raises nothing, the options being a list, empty or missing.
C13_AnswerTextsByRange ==
    ResultsShown
        => /\ last.exc = NoExc
           /\ Len(ShownPairs) = Len(GradedArgs.questions)
           /\ \A i \in 1..Len(ShownPairs) :
                 /\ \A k \in 1..Len(OptionsOf(i)) :
                       /\ CorrectAnswerOf(i) = k - 1
                             => ShownPairs[i].correct_answer = OptionsOf(i)[k]
                       /\ GradedArgs.user_answers[i] = k - 1
                             => ShownPairs[i].your_answer = OptionsOf(i)[k]
                 /\ CorrectAnswerOf(i) \notin 0..(Len(OptionsOf(i)) - 1)
                       => ShownPairs[i].correct_answer = "Unknown"
                 /\ GradedArgs.user_answers[i] \notin 0..(Len(OptionsOf(i)) - 1)
                       => ShownPairs[i].your_answer = "Not answered"

\* results with a correct_answer below the options, one above them, and a
\* question without options
C13_Witness ==
    /\ ResultsShown
    /\ Len(ShownPairs) = MaxGraded
    /\ OptionsOf(1) # <<>> /\ CorrectAnswerOf(1) = -1
    /\ OptionsOf(2) # <<>> /\ CorrectAnswerOf(2) = Len(OptionsOf(2))
    /\ "options" \notin DOMAIN GradedArgs.questions[3]
    /\ ShownPairs[1].your_answer = "b"

\* C14: the score shown is 100 * correctCount / questionCount to one decimal,
\* correctCount being the number of questions i of the quiz with
\* user_answers[i] == correct_answer and questionCount the number of questions
\* of the quiz; it is 0 for a quiz without questions and 100 when every
\* question is answered correctly.
C14_ScoreIsShareOfCorrect ==
    ResultsShown
        => LET questionCount == Len(GradedArgs.questions)
               correctCount ==
                   Cardinality({i \in 1..questionCount :
                                   GradedArgs.user_answers[i] = CorrectAnswerOf(i)})
               score == fout.results.out.score_percentage
           IN /\ fout.results.out.correct_count = correctCount
              /\ questionCount = 0 => score = 0
              /\ questionCount > 0
                    => /\ 2 * questionCount * score > 2000 * correctCount - questionCount
                       /\ 2 * questionCount * score <= 2000 * correctCount + questionCount
              /\ (questionCount > 0 /\ correctCount = questionCount) => score = 1000

\* two of three questions answered correctly: 66.7
C14_Witness ==
    /\ ResultsShown
    /\ Len(GradedArgs.questions) = MaxGraded
    /\ fout.results.out.correct_count = MaxGraded - 1
    /\ fout.results.out.score_percentage = 667

-----------------------------------------------------------------------------
(* Properties of the course view, under SpecEnrich *)

\* the last run showed the course view
ViewShown == "view" \in DOMAIN fout /\ fout.view.shown

\* the node has no videos: the key is missing or the list is empty
WithoutVideos(node) == "videos" \notin DOMAIN node \/ node.videos = <<>>

\* C15: in the course view, every topic and every subtopic whose videos key
\* is missing or whose videos list is empty is shown with the 'No videos
\* available' placeholder.
C15_NoVideosPlaceholder ==
    ViewShown
        => \A i \in 1..Len(fout.view.main_topics) :
              /\ WithoutVideos(course_data.main_topics[i])
                    => fout.view.main_topics[i].videos = Placeholder
              /\ \A j \in 1..Len(fout.view.main_topics[i].subtopics) :
                    WithoutVideos(course_data.main_topics[i].subtopics[j])
                        => fout.view.main_topics[i].subtopics[j].videos = Placeholder

-----------------------------------------------------------------------------
(* A fresh session that generates a course with a quiz, for every pair of    *)
(* documents of RenderedCourses and RenderedQuizzes, and shows them: the     *)
(* course view, the course PDF, the quiz and the quiz PDF.  fout.view and    *)
(* fout.pdf keep what was shown and built.                                   *)

\* the Generate Course click whose completions encode fin.course and fin.quiz
DocumentsForRendering ==
    /\ last.op = "init"
    /\ Run(selected_tab, "Generate Course", "DocumentsForRendering",
           [NoInput EXCEPT
              !.generate_quiz = TRUE,
              !.resp = [exc |-> FALSE, status_code |-> OkStatus, content |-> ObjectText,
                        dict |-> fin.course],
              !.qresp = [exc |-> FALSE, status_code |-> OkStatus, content |-> ObjectText,
                         dict |-> fin.quiz]])

\* the user opens the course view
OpenCourseView ==
    /\ course_data # PyNone
    /\ SelectTab("Course View", <<>>)

InitRender ==
    /\ InitSession
    /\ GOOGLE_API_KEY = TRUE
    /\ fin \in {[observe |-> TRUE, course |-> c, quiz |-> q] :
                   c \in RenderedCourses, q \in RenderedQuizzes}

NextRender ==
    \/ DocumentsForRendering
    \/ \E pick \in ShownAt(selected_tab) : Rerun(pick)
    \/ OpenCourseView
    \/ GeneratePdfClick
    \/ \E pick \in PicksAt("Quiz") : AnswerQuiz(pick)
    \/ \E pick \in Shown(quiz_data, user_answers) : DownloadQuizPdf(pick)

SpecRender == InitRender /\ [][NextRender]_vars

-----------------------------------------------------------------------------
(* Properties of the renderers, under SpecRender *)

\* the last run called a renderer
RendererRan ==
    last.op \in {"Rerun", "SelectTab", "GeneratePdf", "DownloadQuizPdf"}

\* the last run built a PDF
PdfBuilt == "pdf" \in DOMAIN fout /\ "exc" \in DOMAIN fout.pdf

\* C16: display_course_content, display_quiz, generate_pdf and
\* generate_quiz_pdf raise nothing on a document from which keys are missing
\* at any level (course, topic, subtopic, video entry, quiz, question); a
\* missing text is shown as its default and a missing sequence as empty: a
\* course without learning_objectives is shown, and built, with an empty list
\* of objectives.
C16_RenderersTolerateMissingKeys ==
    RendererRan
        => /\ last.exc = NoExc
           /\ (ViewShown /\ "learning_objectives" \notin DOMAIN course_data)
                 => fout.view.learning_objectives = <<>>
           /\ (PdfBuilt /\ last.op = "GeneratePdf"
                        /\ "learning_objectives" \notin DOMAIN course_data)
                 => fout.pdf.learning_objectives = <<>>

-----------------------------------------------------------------------------
(* One Generate Course click on a fresh session, for every setting of the    *)
(* Temperature and Max Tokens sliders, with and without a quiz.              *)
(* fout.payloads keeps the bodies of the completion requests posted.         *)

CompletionRequested ==
    /\ last.op = "init"
    /\ Run(selected_tab, "Generate Course", "CompletionRequested",
           [NoInput EXCEPT
              !.temperature = fin.temperature,
              !.max_tokens = fin.max_tokens,
              !.generate_quiz = fin.generate_quiz,
              !.resp = [exc |-> FALSE, status_code |-> OkStatus, content |-> ObjectText,
                        dict |-> CourseDoc(SessionProfile)],
              !.qresp = [exc |-> FALSE, status_code |-> OkStatus, content |-> ObjectText,
                         dict |-> [quiz_title |-> "Q"]]])

InitPayload ==
    /\ InitSession
    /\ GOOGLE_API_KEY = TRUE
    /\ fin \in [observe : {TRUE}, temperature : Temperatures,
                max_tokens : MaxTokensChoices, generate_quiz : BOOLEAN]

NextPayload == CompletionRequested

SpecPayload == InitPayload /\ [][NextPayload]_vars

\* C17: the temperature and the max_tokens of every completion request of a
\* generation are the values the user set with the sliders of the Advanced
\* Options for that generation.
C17_SamplingFromCaller ==
    last.op = "CompletionRequested"
        => \A i \in 1..Len(fout.payloads) :
              /\ fout.payloads[i].temperature = fout.in.temperature
              /\ fout.payloads[i].max_tokens = fout.in.max_tokens

-----------------------------------------------------------------------------
(* The retry, under Spec *)

\* the run of a Retry Quiz click that reached the button
Retried == last.op = "RetryQuiz" /\ last.exc = NoExc

\* C18: the run of a Retry Quiz click leaves user_answers at -1 for every
\* question of the held quiz, quiz_submitted False and quiz_data as it was;
\* the render that follows it records for no question the selection of the
\* attempt that was retried (a selection of the first option, which a fresh
\* quiz shows too, does not count); and quiz_submitted, which makes the
\* results show, only becomes True by a Submit Quiz click.
C18_RetryClearsAttempt ==
    [][/\ Retried'
            => /\ user_answers' = Unanswered(Len(HeldQuestions))
               /\ ~quiz_submitted'
               /\ quiz_data' = quiz_data
       /\ (Retried /\ last'.op = "Rerun")
            => \A i \in 1..Len(user_answers') :
                  ~(user_answers'[i] > 0 /\ user_answers'[i] = last.attempt[i])
       /\ (quiz_submitted' /\ ~quiz_submitted) => last'.op = "SubmitQuiz"]_vars

-----------------------------------------------------------------------------
(* The order of the lookups, under SpecEnrich *)

\* the topic, and the subtopic (0 for the topic itself), that is node n of
\* the document in document order
TopicOfNode(p, n) == ((n - 1) \div (p.S + 1)) + 1

SubtopicOfNode(p, n) == (n - 1) % (p.S + 1)

\* C19: the lookups of an enrichment are issued in document order: that of
\* topic i, then those of its subtopics in list order, then that of topic
\* i+1; the queries issued are fixed by the parsed document, whatever the
\* video API answers (the sequence stops early only where a query cannot be
\* built).
C19_LookupsInDocumentOrder ==
    EnrichRan
        => /\ Len(fout.gen.lookups) <= NodeCount(fin.profile)
           /\ \A n \in 1..Len(fout.gen.lookups) :
                 fout.gen.lookups[n].q =
                     QueryOf(fin.profile, TopicOfNode(fin.profile, n),
                             SubtopicOfNode(fin.profile, n))
           /\ WellTitled(fin.profile)
                 => Len(fout.gen.lookups) = NodeCount(fin.profile)

\* two topics of two subtopics, the first lookup failing
C19_Witness ==
    /\ EnrichRan
    /\ fin.profile.T = MaxTopics /\ fin.profile.S = MaxSubtopics
    /\ fin.profile.exn = 0
    /\ fin.oracle[1] = "raise" /\ fin.oracle[2] = "hit"
    /\ Len(fout.gen.lookups) = NodeCount(fin.profile)
    /\ fout.gen.lookups[2].q = QueryFor(SubtopicTitle(1, 1))
    /\ fout.gen.lookups[MaxSubtopics + 2].q = QueryFor(TopicTitle(2))

-----------------------------------------------------------------------------
(* The held documents, under Spec *)

\* C20: after every run a quiz is held only if a course is held, a held
\* course or quiz is never replaced by None, and the run of a Download Quiz
\* PDF click, which reads st.session_state.course_data.get for the file
\* name, never finds None there.
C20_QuizOnlyWithCourse ==
    [][/\ quiz_data' # PyNone => course_data' # PyNone
       /\ course_data # PyNone => course_data' # PyNone
       /\ quiz_data # PyNone => quiz_data' # PyNone
       /\ last'.op = "DownloadQuizPdf"
             => last'.exc # "'NoneType' object has no attribute 'get'"]_vars

\* the quiz PDF was built and named after the held course
C20_Witness ==
    /\ last.op = "DownloadQuizPdf"
    /\ last.exc = NoExc
    /\ quiz_data # PyNone /\ IsDict(course_data)
    /\ "course_title" \in DOMAIN course_data

-----------------------------------------------------------------------------
(* What the question loop records, under Spec *)

\* the last run took the question loop of display_quiz to its end
QuizRendered == last.radios.done

\* what the loop left in user_answers for question i of the held quiz, and the
\* options of that question
RecordedFor(i) == last.radios.answers[i]

HeldOptions(i) == Get(HeldQuestions[i], "options", <<>>)

\* the questions of the held quiz that have options
WithOptions == {i \in 1..Len(HeldQuestions) : HeldOptions(i) # <<>>}

\* C21: when display_quiz has rendered the held quiz, user_answers[i] is an
\* index into the options of every question i that has options, and -1 for no
\* such question; while the user has picked no option in a radio of the quiz,
\* it is 0, the first option, and the results of a submitted quiz grade the
\* question as they grade the answer 0.
C21_UntouchedIsFirstOption ==
    QuizRendered
        => /\ \A i \in WithOptions : RecordedFor(i) \in 0..(Len(HeldOptions(i)) - 1)
           /\ \A i \in 1..Len(HeldQuestions) : RecordedFor(i) = -1 => i \notin WithOptions
           /\ ~touched
                 => \A i \in WithOptions :
                       /\ RecordedFor(i) = 0
                       /\ last.results.shown
                             => last.results.graded[i]
                                    = GradeQuestion(HeldQuestions[i], 0)

=============================================================================
